---- MODULE Spec2Model ----
(***************************************************************************)
(* Race-progress core of SGP_Data_Challenge:                               *)
(*   navigation/course.py     mark-progression tracker                     *)
(*   race_analysis/leader.py  leader identification                        *)
(*   race_analysis/dtl.py     distance to leader                           *)
(*   utils/gps.py             haversine distance                           *)
(*                                                                         *)
(* Positions are points <<x, y>> of a grid: latitude = x * 3/4096 degree,  *)
(* longitude = y * 3/4096 degree (both exact binary fractions, so the      *)
(* code's float differences and cross products of grid points are exact).  *)
(* One grid step is 81.44 m on the sphere of radius 6 371 000 m; on this   *)
(* grid the haversine formula equals step * sqrt(dx^2 + dy^2) to within    *)
(* 2 micrometres.  Distances are integers in centimetres.                  *)
(***************************************************************************)
EXTENDS Integers, Naturals, Sequences, FiniteSets, TLC

VARIABLES
    course,            \* List[CompoundMark] given to the function under study
    boat_data,         \* tracker: rows of the boat's stream iterated so far
    results,           \* tracker: the list `results`
    current_mark_idx,  \* tracker: loop-carried local
    prev_pos,          \* tracker: loop-carried local, None before the first row
    pc,                \* position of the running function
    all_boat_data,     \* leader: Dict[boat id -> rows], as given
    timestamps,        \* leader: the sorted list of get_aligned_timestamps
    ts_i,              \* leader: number of timestamps iterated
    leader_data,       \* leader: the list `leader_data`; the leader stream given to dtl
    position_data,     \* dtl: rows of the subject boat
    row_i,             \* dtl: number of rows of position_data iterated
    leader_idx,        \* dtl: the local `leader_idx` of the last iteration
    dtl_results,       \* dtl: the list `results`
    points,            \* gps filter: the argument `points`
    max_jump_meters,   \* gps filter: the argument `max_jump_meters`
    coord_unit,        \* gps filter: unit of the coordinates of `points`
    filtered_points,   \* gps filter: the list `filtered_points`; the list returned
    point_i,           \* gps filter: number of points handled
    start_mark,        \* leg type: name of the argument `start_mark`
    end_mark,          \* leg type: name of the argument `end_mark`
    wind_direction,    \* leg type: the argument `wind_direction`, degrees
    leg_bearing,       \* leg type: the local `leg_bearing`, degrees
    leg_type,          \* leg type: the string returned, NoneStr before the return
    vmc_data,          \* track vmc: the rows of `boat_data`
    vmc_i,             \* track vmc: number of rows handled by `apply`
    vmc_bearing,       \* track vmc: the local `course_bearing` of the last iteration
    vmc_results,       \* track vmc: the list `results`
    trackers,          \* fleet: the locals of one add_own_mark_tracking call per boat
    xml_course,        \* parser: the children of the XML element Course
    xml_sequence,      \* parser: the children of the XML element CompoundMarkSequence
    parse_i,           \* parser: number of children of Course handled
    compound_marks,    \* parser: the dict `compound_marks`, CompoundMarkID -> object
    ordered_marks,     \* parser: the list `ordered_marks`, of references to objects
    race_marks         \* parser: Race.marks as returned

trackVars == <<boat_data, results, current_mark_idx, prev_pos>>
leaderVars == <<all_boat_data, timestamps, ts_i>>
dtlVars == <<position_data, row_i, leader_idx, dtl_results>>

filterVars == <<points, max_jump_meters, coord_unit, filtered_points, point_i>>
legVars == <<start_mark, end_mark, wind_direction, leg_bearing, leg_type>>
vmcVars == <<vmc_data, vmc_i, vmc_bearing, vmc_results>>
fleetVars == <<trackers>>
parseVars == <<xml_course, xml_sequence, parse_i, compound_marks, ordered_marks, race_marks>>
otherVars == <<fleetVars, parseVars>>
utilVars == <<filterVars, legVars, vmcVars, otherVars>>

vars == <<course, pc, trackVars, leaderVars, leader_data, dtlVars, utilVars>>

\* Python's None for an Optional tuple or row
None == <<>>

\* Python's None for an Optional[str]
NoneStr == "None"

\* the variables of a function that is not the one under study
TrackIdle == boat_data = <<>> /\ results = <<>> /\ current_mark_idx = 0 /\ prev_pos = None
LeaderIdle == all_boat_data = <<>> /\ timestamps = <<>> /\ ts_i = 0
DtlIdle == position_data = <<>> /\ row_i = 0 /\ leader_idx = 0 /\ dtl_results = <<>>
FilterIdle ==
    /\ points = <<>> /\ max_jump_meters = 0 /\ coord_unit = NoneStr
    /\ filtered_points = <<>> /\ point_i = 0
LegIdle ==
    /\ start_mark = NoneStr /\ end_mark = NoneStr /\ wind_direction = 0
    /\ leg_bearing = 0 /\ leg_type = NoneStr
VmcIdle == vmc_data = <<>> /\ vmc_i = 0 /\ vmc_bearing = 0 /\ vmc_results = <<>>
FleetIdle == trackers = <<>>
ParseIdle ==
    /\ xml_course = <<>> /\ xml_sequence = <<>> /\ parse_i = 0
    /\ compound_marks = <<>> /\ ordered_marks = <<>> /\ race_marks = <<>>
OtherIdle == FleetIdle /\ ParseIdle
UtilIdle == FilterIdle /\ LegIdle /\ VmcIdle /\ OtherIdle

(***************************************************************************)
(* Bounds                                                                  *)
(***************************************************************************)
MaxSamples == 3        \* longest boat stream fed to the tracker
MaxRows == 2           \* longest stream of a boat given to identify_leader / calculate_dtl

\* DATETIME values of the streams
Times == 1..3

LatSteps == 0..4
LonSteps == 0..2
Positions == LatSteps \X LonSteps

(***************************************************************************)
(* utils/gps.py                                                            *)
(***************************************************************************)
EarthRadius == 6371000

\* metres -> centimetres
Cm(m) == 100 * m

\* Length of one grid step (3/4096 degree of arc) in centimetres:
\* R * 100 * (3/4096) * pi/180 with pi = 355/113, = 8144.
GridStepCm == ((((EarthRadius * 100) \div 4096) * 3) * 355) \div (113 * 180)

Abs(v) == IF v < 0 THEN -v ELSE v

RECURSIVE SqrtIter(_, _, _)
SqrtIter(n, lo, hi) ==
    IF lo >= hi THEN lo
    ELSE LET mid == (lo + hi + 1) \div 2
         IN  IF mid * mid <= n THEN SqrtIter(n, mid, hi)
                               ELSE SqrtIter(n, lo, mid - 1)

\* floor of the square root
ISqrt(n) == SqrtIter(n, 0, 46340)

\* R * c of haversine_distance for two grid points whose squared distance in
\* grid steps is n, in centimetres (n <= 32 keeps the product below 2^31)
GreatCircleCm == [n \in 0..32 |-> ISqrt(GridStepCm * GridStepCm * n)]

\* A position with a missing latitude or longitude (float NaN) and the NaN
\* that arithmetic on it yields.  Both are reserved values outside the grid and
\* outside the distances; every operator tests for them before it computes or
\* compares, a comparison with NaN being false.
NaNPos == <<0 - 99, 0 - 99>>
NaNDist == 0 - 1
IsNaNPos(p) == p = NaNPos

\* `d <= limit` and `d > limit` on floats
FloatLe(d, limit) == d # NaNDist /\ d <= limit
FloatGt(d, limit) == d # NaNDist /\ d > limit

\* haversine_distance(point1, point2), in centimetres
haversine_distance(point1, point2) ==
    IF IsNaNPos(point1) \/ IsNaNPos(point2) THEN NaNDist
    ELSE LET dlat == point2[1] - point1[1]
             dlon == point2[2] - point1[2]
         IN  GreatCircleCm[dlat * dlat + dlon * dlon]

(***************************************************************************)
(* models/dataclasses.py: Mark, CompoundMark                               *)
(***************************************************************************)
Mark(name, lat, lon) == [name |-> name, lat |-> lat, lon |-> lon]

CompoundMark(name, marks) == [name |-> name, marks |-> marks]

SingleMark(name, lat, lon) == CompoundMark(name, <<Mark(name, lat, lon)>>)

Gate(name, lat1, lon1, lat2, lon2) ==
    CompoundMark(name, <<Mark(name \o "1", lat1, lon1), Mark(name \o "2", lat2, lon2)>>)

\* The courses the tracker is run on.
CourseOneMark  == <<SingleMark("M1", 1, 1)>>
CourseWideGate == <<Gate("SL", 1, 0, 1, 2), SingleMark("M1", 3, 1)>>
CourseShortGate == <<Gate("LG", 1, 0, 1, 1), SingleMark("M1", 3, 1)>>
CourseCloseMarks ==
    <<SingleMark("M1", 1, 1), SingleMark("M2", 1, 2), SingleMark("M3", 3, 1)>>
CourseGateLast == <<SingleMark("M1", 3, 1), Gate("FL", 1, 0, 1, 2)>>

Courses ==
    {CourseOneMark, CourseWideGate, CourseShortGate, CourseCloseMarks, CourseGateLast}

(***************************************************************************)
(* navigation/course.py: is_mark_rounded                                   *)
(***************************************************************************)
ROUNDING_ZONE == 100
MAX_POSITION_JUMP == 300

\* np.cross of two 2-d vectors
cross(a, b) == a[1] * b[2] - a[2] * b[1]

\* np.sign
sign(v) == IF v > 0 THEN 1 ELSE IF v < 0 THEN -1 ELSE 0

\* np.abs(np.cross(gate_vector, boat_vector)) > 1e-10, the cross product
\* being c * (3/4096)^2 square degrees for the integer c of the grid:
\* c * 9 / 4096^2 > 1e-10  <=>  c * 90000 > 16.77
NotParallel(c) == Abs(c) * 90000 > 16

\* a single mark: within the rounding zone
SingleRounded(current_pos, mark) ==
    FloatLe(haversine_distance(current_pos, <<mark.marks[1].lat, mark.marks[1].lon>>),
            Cm(ROUNDING_ZONE))

\* the proximity loop over the gate marks
GateProximity(current_pos, mark) ==
    \E g \in 1..Len(mark.marks) :
        FloatLe(haversine_distance(current_pos, <<mark.marks[g].lat, mark.marks[g].lon>>),
                Cm(ROUNDING_ZONE))

\* the sign test about the gate line; with a NaN position the cross product of
\* gate_vector and boat_vector is NaN and `> 1e-10` is false
GateLineCrossed(current_pos, mark, prev) ==
    IF IsNaNPos(current_pos) \/ IsNaNPos(prev) THEN FALSE ELSE
    LET gate_vector == <<mark.marks[2].lat - mark.marks[1].lat,
                         mark.marks[2].lon - mark.marks[1].lon>>
        boat_vector == <<current_pos[1] - prev[1], current_pos[2] - prev[2]>>
        prev_vector == <<prev[1] - mark.marks[1].lat, prev[2] - mark.marks[1].lon>>
        current_vector == <<current_pos[1] - mark.marks[1].lat,
                            current_pos[2] - mark.marks[1].lon>>
        prev_side == cross(gate_vector, prev_vector)
        current_side == cross(gate_vector, current_vector)
    IN  IF NotParallel(cross(gate_vector, boat_vector))
        THEN sign(prev_side) # sign(current_side)
        ELSE FALSE

\* is_mark_rounded without the position-jump guard
is_mark_rounded_NoJumpGuard(current_pos, mark, prev) ==
    IF Len(mark.marks) = 1
    THEN SingleRounded(current_pos, mark)
    ELSE IF prev = None
    THEN FALSE
    ELSE IF GateProximity(current_pos, mark)
    THEN TRUE
    ELSE GateLineCrossed(current_pos, mark, prev)

is_mark_rounded(current_pos, mark, prev) ==
    IF prev # None /\ FloatGt(haversine_distance(current_pos, prev), Cm(MAX_POSITION_JUMP))
    THEN FALSE
    ELSE IF Len(mark.marks) = 1
    THEN SingleRounded(current_pos, mark)
    ELSE IF prev = None
    THEN FALSE
    ELSE IF GateProximity(current_pos, mark)
    THEN TRUE
    ELSE GateLineCrossed(current_pos, mark, prev)

(***************************************************************************)
(* navigation/course.py: add_own_mark_tracking                             *)
(***************************************************************************)
\* the same guard reaching the last compound mark: `current_mark_idx < len(course)`
RoundingEvaluated_UpToLast(idx, prev, crs) == prev # None /\ idx < Len(crs)

\* `if prev_pos and current_mark_idx < len(course) - 1` (0-based index);
\* a non-empty tuple is truthy, so `prev_pos` is false only when None
RoundingEvaluated(idx, prev, crs) == prev # None /\ idx < Len(crs) - 1

\* `while` in place of `if`: every mark whose condition the row satisfies is passed
RECURSIVE NextMarkIdx_While(_, _, _, _)
NextMarkIdx_While(idx, current_pos, prev, crs) ==
    IF RoundingEvaluated(idx, prev, crs)
       /\ is_mark_rounded(current_pos, crs[idx + 1], prev)
    THEN NextMarkIdx_While(idx + 1, current_pos, prev, crs)
    ELSE idx

\* the index after the rounding check of one row
NextMarkIdx(idx, current_pos, prev, crs) ==
    IF RoundingEvaluated(idx, prev, crs)
       /\ is_mark_rounded(current_pos, crs[idx + 1], prev)
    THEN idx + 1
    ELSE idx

\* the dict appended to `results` (idx is the 0-based current_mark_idx)
ResultRow(idx, current_pos, crs) ==
    IF idx >= Len(crs)
    THEN [NEXT_MARK |-> "FINISHED", MARK_DISTANCE |-> 0, CURRENT_LEG_NUM |-> idx]
    ELSE LET next_mark == crs[idx + 1].marks[1]
         IN  [NEXT_MARK |-> next_mark.name,
              MARK_DISTANCE |->
                  haversine_distance(current_pos, <<next_mark.lat, next_mark.lon>>),
              CURRENT_LEG_NUM |-> idx]

\* results = [], current_mark_idx = 0, prev_pos = None
TrackInit ==
    /\ course \in Courses
    /\ boat_data = <<>>
    /\ results = <<>>
    /\ current_mark_idx = 0
    /\ prev_pos = None
    /\ pc = "loop"
    /\ LeaderIdle /\ leader_data = <<>> /\ DtlIdle /\ UtilIdle

\* one iteration of `for idx, row in boat_data.iterrows()`
TrackRow(current_pos) ==
    /\ pc = "loop"
    /\ Len(boat_data) < MaxSamples
    /\ LET idx == NextMarkIdx(current_mark_idx, current_pos, prev_pos, course)
       IN  /\ current_mark_idx' = idx
           /\ results' = Append(results, ResultRow(idx, current_pos, course))
    /\ boat_data' = Append(boat_data, current_pos)
    /\ prev_pos' = current_pos
    /\ UNCHANGED <<course, pc, leaderVars, leader_data, dtlVars, utilVars>>

\* the stream is exhausted: pd.concat([boat_data, result_df], axis=1)
TrackReturn ==
    /\ pc = "loop"
    /\ pc' = "done"
    /\ UNCHANGED <<course, trackVars, leaderVars, leader_data, dtlVars, utilVars>>

\* the DataFrame returned: row n of boat_data joined with row n of results
result_df ==
    [n \in 1..Len(results) |->
        [pos |-> boat_data[n],
         NEXT_MARK |-> results[n].NEXT_MARK,
         MARK_DISTANCE |-> results[n].MARK_DISTANCE,
         CURRENT_LEG_NUM |-> results[n].CURRENT_LEG_NUM]]

(***************************************************************************)
(* Tracker properties                                                      *)
(***************************************************************************)
\* the index with which row n is entered, and the position before row n
LegBefore(n) == IF n = 1 THEN 0 ELSE results[n - 1].CURRENT_LEG_NUM
PosBefore(n) == IF n = 1 THEN None ELSE boat_data[n - 1]

Advanced(n) == results[n].CURRENT_LEG_NUM = LegBefore(n) + 1

JumpWithinLimit(n) ==
    haversine_distance(boat_data[n], boat_data[n - 1]) <= Cm(MAX_POSITION_JUMP)

\* C1: the emitted CURRENT_LEG_NUM sequence never decreases and grows by at
\* most 1 from one row to the next (and is at most 1 at the first row).
C1_LegStepsByAtMostOne ==
    \A n \in 1..Len(results) :
        results[n].CURRENT_LEG_NUM - LegBefore(n) \in {0, 1}

\* C1 witness: a row advanced the index by one although it also satisfies the
\* rounding condition of the following compound mark.
C1_Witness ==
    \E n \in 2..Len(results) :
        /\ Advanced(n)
        /\ LegBefore(n) + 2 <= Len(course)
        /\ is_mark_rounded(boat_data[n], course[LegBefore(n) + 2], boat_data[n - 1])

\* the stream holds, for each compound mark in course order, a row (after the
\* first) that satisfies the mark's rounding condition
RECURSIVE RoundsFrom(_, _)
RoundsFrom(k, from) ==
    IF k > Len(course) THEN TRUE
    ELSE \E n \in from..Len(boat_data) :
            /\ is_mark_rounded(boat_data[n], course[k], boat_data[n - 1])
            /\ RoundsFrom(k + 1, n + 1)

RoundsEveryMarkInOrder == RoundsFrom(1, 2)

\* C2 (as claimed): a stream that rounds every compound mark in order ends with
\* CURRENT_LEG_NUM = len(course), emitted as "FINISHED" with distance 0.
C2_FinishedReached ==
    (pc = "done" /\ RoundsEveryMarkInOrder) =>
        /\ \E n \in 1..Len(results) : results[n].CURRENT_LEG_NUM = Len(course)
        /\ \A n \in 1..Len(results) :
              results[n].CURRENT_LEG_NUM = Len(course) =>
                  /\ results[n].NEXT_MARK = "FINISHED"
                  /\ results[n].MARK_DISTANCE = 0

\* the path prev -> current changes side about the gate line and meets the line
\* between the two gate marks (on the segment)
PathCrossesGateSegment(current_pos, mark, prev) ==
    LET m1 == <<mark.marks[1].lat, mark.marks[1].lon>>
        m2 == <<mark.marks[2].lat, mark.marks[2].lon>>
        boat_vector == <<current_pos[1] - prev[1], current_pos[2] - prev[2]>>
        side1 == cross(boat_vector, <<m1[1] - prev[1], m1[2] - prev[2]>>)
        side2 == cross(boat_vector, <<m2[1] - prev[1], m2[2] - prev[2]>>)
    IN  /\ GateLineCrossed(current_pos, mark, prev)
        /\ sign(side1) * sign(side2) <= 0

\* C3 (as claimed): with a gate as target, a jump of at most 300 m and the
\* rounding rule evaluated, the row advances the index iff it is within 100 m
\* of a gate mark or its path crosses the segment between the gate marks.
C3_GateRoundedIffSegmentCrossed ==
    \A n \in 2..Len(results) :
        (/\ RoundingEvaluated(LegBefore(n), boat_data[n - 1], course)
         /\ Len(course[LegBefore(n) + 1].marks) = 2
         /\ JumpWithinLimit(n))
        => (Advanced(n) <=>
               \/ GateProximity(boat_data[n], course[LegBefore(n) + 1])
               \/ PathCrossesGateSegment(boat_data[n], course[LegBefore(n) + 1],
                                         boat_data[n - 1]))

\* the two rows lie strictly on opposite sides of the gate line and the path
\* passes between the gate marks
PassesThroughGate(current_pos, mark, prev) ==
    LET gate_vector == <<mark.marks[2].lat - mark.marks[1].lat,
                         mark.marks[2].lon - mark.marks[1].lon>>
        prev_side == cross(gate_vector, <<prev[1] - mark.marks[1].lat,
                                          prev[2] - mark.marks[1].lon>>)
        current_side == cross(gate_vector, <<current_pos[1] - mark.marks[1].lat,
                                             current_pos[2] - mark.marks[1].lon>>)
    IN  /\ sign(prev_side) * sign(current_side) < 0
        /\ PathCrossesGateSegment(current_pos, mark, prev)

\* C4 (as claimed): two consecutive rows at most 300 m apart that pass through
\* the target gate advance the index by one at the second of them.
C4_GateCrossingAdvances ==
    \A n \in 2..Len(results) :
        (/\ LegBefore(n) < Len(course)
         /\ Len(course[LegBefore(n) + 1].marks) = 2
         /\ JumpWithinLimit(n)
         /\ PassesThroughGate(boat_data[n], course[LegBefore(n) + 1], boat_data[n - 1]))
        => Advanced(n)

\* C5 (as claimed): with a single mark as target at any index 0..len(course)-1,
\* a row with a previous position advances the index iff it is within 100 m of
\* the mark and at most 300 m from the previous row.
C5_SingleMarkRoundedIffInZone ==
    \A n \in 2..Len(results) :
        (/\ LegBefore(n) < Len(course)
         /\ Len(course[LegBefore(n) + 1].marks) = 1)
        => (Advanced(n) <=>
               /\ SingleRounded(boat_data[n], course[LegBefore(n) + 1])
               /\ JumpWithinLimit(n))

\* C6: a row more than 300 m from the previous row leaves the index unchanged,
\* and every input row has exactly one output record, in input order.
C6_JumpNeverAdvancesOneRecordPerRow ==
    /\ \A n \in 2..Len(results) :
          ~JumpWithinLimit(n) => results[n].CURRENT_LEG_NUM = LegBefore(n)
    /\ Len(results) = Len(boat_data)
    /\ \A n \in 1..Len(results) :
          results[n] = ResultRow(results[n].CURRENT_LEG_NUM, boat_data[n], course)
    /\ pc = "done" => Len(result_df) = Len(boat_data)

\* C6 witness: a row more than 300 m from the previous one that satisfies the
\* rounding condition of the target mark (zone or gate line) has been emitted
\* while the rounding rule was evaluated.
C6_Witness ==
    \E n \in 2..Len(results) :
        /\ ~JumpWithinLimit(n)
        /\ RoundingEvaluated(LegBefore(n), boat_data[n - 1], course)
        /\ is_mark_rounded_NoJumpGuard(boat_data[n], course[LegBefore(n) + 1],
                                       boat_data[n - 1])
        /\ pc = "done"

\* C24 (as claimed): the rounding rule is evaluated on a boat's very first
\* sample too: a first sample within 100 m of the single mark at index 0 has
\* index 1 in its own record (courses of two marks or more, so that the mark at
\* index 0 is not the last one).
C24_FirstSampleEvaluated ==
    (/\ Len(results) >= 1
     /\ Len(course) >= 2
     /\ Len(course[1].marks) = 1
     /\ SingleRounded(boat_data[1], course[1])) =>
        results[1].CURRENT_LEG_NUM = 1

\* C29: every CURRENT_LEG_NUM emitted by add_own_mark_tracking on a non-empty
\* course is an index of the course, 0 <= index <= len(course) - 1, so that
\* course[index] exists for the consumers of the tracker's output.
C29_EmittedIndexInRange ==
    \A n \in 1..Len(results) :
        /\ 0 <= results[n].CURRENT_LEG_NUM
        /\ results[n].CURRENT_LEG_NUM <= Len(course) - 1
        /\ results[n].NEXT_MARK = course[results[n].CURRENT_LEG_NUM + 1].marks[1].name

\* a boat on the last leg whose row satisfies the rounding condition of the last
\* compound mark and still gets the index len(course) - 1
C29_Witness ==
    \E n \in 2..Len(results) :
        /\ LegBefore(n) = Len(course) - 1
        /\ is_mark_rounded(boat_data[n], course[Len(course)], boat_data[n - 1])
        /\ results[n].CURRENT_LEG_NUM = Len(course) - 1

Init == TrackInit

Next ==
    \/ \E current_pos \in Positions : TrackRow(current_pos)
    \/ TrackReturn

Spec == Init /\ [][Next]_vars

(***************************************************************************)
(* add_own_mark_tracking on streams with missing positions                 *)
(***************************************************************************)
\* the last row with a position before row n, None when there is none
RECURSIVE LastValidBefore(_)
LastValidBefore(n) ==
    IF n = 1 THEN None
    ELSE IF IsNaNPos(boat_data[n - 1]) THEN LastValidBefore(n - 1)
    ELSE boat_data[n - 1]

\* C22 (as claimed): a sample without position is skipped: it is not the
\* previous position of the jump and gate-crossing tests of the next sample,
\* which are made against the last sample that has a position, and the samples
\* after it are processed; a sample without position does not advance the index.
C22_MissingPositionSkipped ==
    \A n \in 2..Len(results) :
        /\ IsNaNPos(boat_data[n]) => ~Advanced(n)
        /\ (/\ ~IsNaNPos(boat_data[n])
            /\ IsNaNPos(boat_data[n - 1])
            /\ LastValidBefore(n) # None
            /\ LegBefore(n) < Len(course) - 1) =>
               (Advanced(n) <=>
                   is_mark_rounded(boat_data[n], course[LegBefore(n) + 1],
                                   LastValidBefore(n)))

InitNaN == TrackInit

NextNaN ==
    \/ \E current_pos \in Positions \cup {NaNPos} : TrackRow(current_pos)
    \/ TrackReturn

SpecNaN == InitNaN /\ [][NextNaN]_vars


(***************************************************************************)
(* Inputs of identify_leader and calculate_dtl                             *)
(***************************************************************************)
\* the course of the fleet: a start gate, then a single mark
FleetCourse == CourseWideGate

FleetPositions == {<<0, 0>>, <<2, 1>>}

\* rows of GPSPositionDataSchema (the columns the two functions read);
\* CURRENT_LEG_NUM is an index into the course
FleetRows ==
    [DATETIME : Times,
     LATITUDE_GPS : {p[1] : p \in FleetPositions},
     LONGITUDE_GPS : {p[2] : p \in FleetPositions},
     CURRENT_LEG_NUM : 0..(Len(FleetCourse) - 1)]

RowPos(row) == <<row.LATITUDE_GPS, row.LONGITUDE_GPS>>

StrictlyAscending(rows) ==
    \A n \in 1..(Len(rows) - 1) : rows[n].DATETIME < rows[n + 1].DATETIME

\* the streams of one boat: time-ordered rows at grid positions
BoatStreams ==
    {rows \in UNION {[1..k -> FleetRows] : k \in 0..MaxRows} :
        /\ StrictlyAscending(rows)
        /\ \A n \in 1..Len(rows) : RowPos(rows[n]) \in FleetPositions}

\* dict keys of all_boat_data, in insertion order
BoatIds == <<"A", "B">>

(***************************************************************************)
(* race_analysis/leader.py                                                 *)
(***************************************************************************)
SetMin(S) == CHOOSE v \in S : \A w \in S : v <= w

\* sorted(list(S))
RECURSIVE SortedList(_)
SortedList(S) ==
    IF S = {} THEN <<>>
    ELSE <<SetMin(S)>> \o SortedList(S \ {SetMin(S)})

\* the set built by timestamps.update(boat_data["DATETIME"]) over all boats
TimestampUnion(abd) ==
    UNION {{abd[b].rows[n].DATETIME : n \in 1..Len(abd[b].rows)} : b \in 1..Len(abd)}

\* only the timestamps every boat has (an inner join in place of the union)
get_aligned_timestamps_Common(abd) ==
    SortedList({t \in TimestampUnion(abd) :
        \A b \in 1..Len(abd) : \E n \in 1..Len(abd[b].rows) : abd[b].rows[n].DATETIME = t})

get_aligned_timestamps(abd) == SortedList(TimestampUnion(abd))

\* the latest row at or before the timestamp (a carry-forward lookup)
position_data_at_timestamp_AsOf(rows, timestamp) ==
    LET hits == {n \in 1..Len(rows) : rows[n].DATETIME <= timestamp}
    IN  IF hits = {} THEN None
        ELSE rows[CHOOSE n \in hits : \A m \in hits : m <= n]

\* boat_data[mask].iloc[0], or None when no row has the timestamp
position_data_at_timestamp(rows, timestamp) ==
    LET hits == {n \in 1..Len(rows) : rows[n].DATETIME = timestamp}
    IN  IF hits = {} THEN None
        ELSE rows[SetMin(hits)]

\* the dict entry of one boat
BoatPosition(boat_id, data, crs) ==
    LET next_mark == crs[data.CURRENT_LEG_NUM + 1].marks[1]
        pos == RowPos(data)
    IN  [boat_id |-> boat_id,
         position |-> pos,
         mark_idx |-> data.CURRENT_LEG_NUM,
         dist_to_mark |-> haversine_distance(pos, <<next_mark.lat, next_mark.lon>>)]

\* the dict boat_positions as the list of its entries in insertion order
RECURSIVE PositionsFrom(_, _, _, _)
PositionsFrom(b, timestamp, abd, crs) ==
    IF b > Len(abd) THEN <<>>
    ELSE LET data == position_data_at_timestamp(abd[b].rows, timestamp)
         IN  (IF data = None THEN <<>>
              ELSE <<BoatPosition(abd[b].boat_id, data, crs)>>)
             \o PositionsFrom(b + 1, timestamp, abd, crs)

get_positions_at_timestamp(timestamp, abd, crs) == PositionsFrom(1, timestamp, abd, crs)

\* course[data["CURRENT_LEG_NUM"]] raises IndexError for some boat that has a
\* row at the timestamp: the index is len(course) or more
PositionsRaise(timestamp, abd, crs) ==
    \E b \in 1..Len(abd) :
        LET data == position_data_at_timestamp(abd[b].rows, timestamp)
        IN  data # None /\ data.CURRENT_LEG_NUM >= Len(crs)

\* tuple order of the key (-mark_idx, dist_to_mark); distances are compared at
\* the centimetre resolution of haversine_distance
KeyLess(p, q) ==
    \/ -p.mark_idx < -q.mark_idx
    \/ (p.mark_idx = q.mark_idx /\ p.dist_to_mark < q.dist_to_mark)

\* the key without the negation of mark_idx
KeyLessLowIndexFirst(p, q) ==
    \/ p.mark_idx < q.mark_idx
    \/ (p.mark_idx = q.mark_idx /\ p.dist_to_mark < q.dist_to_mark)

determine_leader_LowIndexFirst(boat_positions) ==
    IF boat_positions = <<>> THEN NoneStr
    ELSE LET best == CHOOSE i \in 1..Len(boat_positions) :
                        /\ \A j \in 1..Len(boat_positions) :
                              ~KeyLessLowIndexFirst(boat_positions[j], boat_positions[i])
                        /\ \A j \in 1..(i - 1) :
                              KeyLessLowIndexFirst(boat_positions[i], boat_positions[j])
         IN  boat_positions[best].boat_id

\* min(keys, key=...): the first entry, in dict order, whose key is minimal
determine_leader(boat_positions) ==
    IF boat_positions = <<>> THEN NoneStr
    ELSE LET best == CHOOSE i \in 1..Len(boat_positions) :
                        /\ \A j \in 1..Len(boat_positions) :
                              ~KeyLess(boat_positions[j], boat_positions[i])
                        /\ \A j \in 1..(i - 1) :
                              KeyLess(boat_positions[i], boat_positions[j])
         IN  boat_positions[best].boat_id

\* boat_positions[leader_id]
PositionOf(boat_positions, boat_id) ==
    boat_positions[CHOOSE i \in 1..Len(boat_positions) :
                       boat_positions[i].boat_id = boat_id]

create_leader_entry(timestamp, leader_id, leader_info) ==
    [DATETIME |-> timestamp,
     LEADER_ID |-> leader_id,
     LEADER_LAT |-> leader_info.position[1],
     LEADER_LON |-> leader_info.position[2],
     LEADER_LEG |-> leader_info.mark_idx]

\* the body of `for timestamp in timestamps`: leader_data after the iteration
LeaderDataAfter(ld, timestamp, abd, crs) ==
    LET boat_positions == get_positions_at_timestamp(timestamp, abd, crs)
        leader_id == determine_leader(boat_positions)
    IN  IF boat_positions = <<>> THEN ld
        ELSE IF leader_id = NoneStr \/ leader_id = "" THEN ld   \* `if leader_id:`
        ELSE Append(ld, create_leader_entry(timestamp, leader_id,
                                            PositionOf(boat_positions, leader_id)))

(***************************************************************************)
(* Leader properties                                                       *)
(***************************************************************************)
\* the rows that boat b (an index into all_boat_data) has at the timestamp
RowsAt(b, t) ==
    {n \in 1..Len(all_boat_data[b].rows) : all_boat_data[b].rows[n].DATETIME = t}

\* the distance of a row to marks[0] of the compound mark of its leg
DistToNextMark(row) ==
    haversine_distance(RowPos(row),
                       <<course[row.CURRENT_LEG_NUM + 1].marks[1].lat,
                         course[row.CURRENT_LEG_NUM + 1].marks[1].lon>>)

\* C7: no boat sampled at a record's timestamp has a higher mark index than the
\* record's leader, and none with the leader's mark index is strictly closer to
\* its next mark than the leader is.
C7_LeaderMinimisesKey ==
    \A r \in 1..Len(leader_data) :
        \E l \in 1..Len(all_boat_data) :
            /\ all_boat_data[l].boat_id = leader_data[r].LEADER_ID
            /\ \E ln \in RowsAt(l, leader_data[r].DATETIME) :
                \A b \in 1..Len(all_boat_data) :
                    \A n \in RowsAt(b, leader_data[r].DATETIME) :
                        LET lead == all_boat_data[l].rows[ln]
                            cand == all_boat_data[b].rows[n]
                        IN  /\ cand.CURRENT_LEG_NUM <= lead.CURRENT_LEG_NUM
                            /\ cand.CURRENT_LEG_NUM = lead.CURRENT_LEG_NUM
                                  => DistToNextMark(cand) >= DistToNextMark(lead)

\* C7 witness: B leads at a timestamp where A is sampled on the same leg and is
\* farther from the next mark; and B leads at a timestamp where A is sampled on
\* a lower leg but closer to its own next mark.
C7_Witness ==
    /\ pc = "done"
    /\ \E r \in 1..Len(leader_data) :
          /\ leader_data[r].LEADER_ID = "B"
          /\ \E n \in RowsAt(1, leader_data[r].DATETIME) :
                /\ all_boat_data[1].rows[n].CURRENT_LEG_NUM = leader_data[r].LEADER_LEG
                /\ \E m \in RowsAt(2, leader_data[r].DATETIME) :
                      DistToNextMark(all_boat_data[1].rows[n])
                          > DistToNextMark(all_boat_data[2].rows[m])
    /\ \E r \in 1..Len(leader_data) :
          /\ leader_data[r].LEADER_ID = "B"
          /\ \E n \in RowsAt(1, leader_data[r].DATETIME) :
                /\ all_boat_data[1].rows[n].CURRENT_LEG_NUM < leader_data[r].LEADER_LEG
                /\ \E m \in RowsAt(2, leader_data[r].DATETIME) :
                      DistToNextMark(all_boat_data[1].rows[n])
                          < DistToNextMark(all_boat_data[2].rows[m])

\* C8: the records are in strictly ascending timestamp order, every record's
\* timestamp occurs in some boat's stream, and on return there is exactly one
\* record for each distinct timestamp of the streams.
C8_OneRecordPerTimestamp ==
    /\ \A r \in 1..(Len(leader_data) - 1) :
          leader_data[r].DATETIME < leader_data[r + 1].DATETIME
    /\ \A r \in 1..Len(leader_data) :
          \E b \in 1..Len(all_boat_data) : RowsAt(b, leader_data[r].DATETIME) # {}
    /\ pc = "done" =>
          \A t \in Times :
              Cardinality({r \in 1..Len(leader_data) : leader_data[r].DATETIME = t})
                  = IF \E b \in 1..Len(all_boat_data) : RowsAt(b, t) # {} THEN 1 ELSE 0

\* C8 witness: the function returned three records for two boats whose streams
\* share a timestamp and each have a timestamp the other lacks.
C8_Witness ==
    /\ pc = "done"
    /\ \E t \in Times : RowsAt(1, t) # {} /\ RowsAt(2, t) # {}
    /\ \E t \in Times : RowsAt(1, t) # {} /\ RowsAt(2, t) = {}
    /\ \E t \in Times : RowsAt(1, t) = {} /\ RowsAt(2, t) # {}
    /\ Len(leader_data) >= 3

\* C9: the boat of a record has a row at exactly the record's timestamp and the
\* record's position and leg are those of that row.
C9_LeaderSampledAtTimestamp ==
    \A r \in 1..Len(leader_data) :
        \E l \in 1..Len(all_boat_data) :
            /\ all_boat_data[l].boat_id = leader_data[r].LEADER_ID
            /\ \E n \in RowsAt(l, leader_data[r].DATETIME) :
                  /\ leader_data[r].LEADER_LAT = all_boat_data[l].rows[n].LATITUDE_GPS
                  /\ leader_data[r].LEADER_LON = all_boat_data[l].rows[n].LONGITUDE_GPS
                  /\ leader_data[r].LEADER_LEG = all_boat_data[l].rows[n].CURRENT_LEG_NUM

\* C9 witness: a record at a timestamp where one boat has no row although its
\* latest earlier row has a higher mark index than every boat sampled then.
C9_Witness ==
    \E r \in 1..Len(leader_data) :
        \E b \in 1..Len(all_boat_data) :
            /\ RowsAt(b, leader_data[r].DATETIME) = {}
            /\ \E n \in 1..Len(all_boat_data[b].rows) :
                  /\ all_boat_data[b].rows[n].DATETIME < leader_data[r].DATETIME
                  /\ all_boat_data[b].rows[n].CURRENT_LEG_NUM > leader_data[r].LEADER_LEG

LeaderInit ==
    /\ course = FleetCourse
    /\ all_boat_data \in
          {<<[boat_id |-> BoatIds[1], rows |-> a], [boat_id |-> BoatIds[2], rows |-> b]>> :
              a \in BoatStreams, b \in BoatStreams}
    /\ timestamps = <<>>
    /\ ts_i = 0
    /\ leader_data = <<>>
    /\ pc = "align"
    /\ TrackIdle /\ DtlIdle /\ UtilIdle

\* timestamps = get_aligned_timestamps(all_boat_data); leader_data = []
AlignTimestamps ==
    /\ pc = "align"
    /\ timestamps' = get_aligned_timestamps(all_boat_data)
    /\ pc' = "leaders"
    /\ UNCHANGED <<course, all_boat_data, ts_i, leader_data, trackVars, dtlVars, utilVars>>

\* one iteration of `for timestamp in timestamps`; an IndexError raised in
\* get_positions_at_timestamp ends the call
LeaderStep ==
    /\ pc = "leaders"
    /\ ts_i < Len(timestamps)
    /\ IF PositionsRaise(timestamps[ts_i + 1], all_boat_data, course)
       THEN /\ pc' = "raised"
            /\ UNCHANGED <<leader_data, ts_i>>
       ELSE /\ leader_data' = LeaderDataAfter(leader_data, timestamps[ts_i + 1],
                                              all_boat_data, course)
            /\ ts_i' = ts_i + 1
            /\ UNCHANGED pc
    /\ UNCHANGED <<course, all_boat_data, timestamps, trackVars, dtlVars, utilVars>>

\* return pd.DataFrame(leader_data), validated by @pa.check_types against
\* LeaderDataSchema: a frame made from no record has no columns, the required
\* columns are missing and the decorator raises SchemaError
LeaderReturn ==
    /\ pc = "leaders"
    /\ ts_i = Len(timestamps)
    /\ pc' = IF leader_data = <<>> THEN "SchemaError" ELSE "done"
    /\ UNCHANGED <<course, leaderVars, leader_data, trackVars, dtlVars, utilVars>>

NextLeader == AlignTimestamps \/ LeaderStep \/ LeaderReturn

SpecLeader == LeaderInit /\ [][NextLeader]_vars

(***************************************************************************)
(* race_analysis/dtl.py                                                    *)
(***************************************************************************)
\* rows of LeaderDataSchema
LeaderRows ==
    [DATETIME : Times,
     LEADER_ID : {BoatIds[1]},
     LEADER_LAT : {p[1] : p \in FleetPositions},
     LEADER_LON : {p[2] : p \in FleetPositions},
     LEADER_LEG : 0..(Len(FleetCourse) - 1)]

\* the leader streams given to calculate_dtl: non-empty, sorted by timestamp
LeaderStreams ==
    {rows \in UNION {[1..k -> LeaderRows] : k \in 1..MaxRows} :
        /\ StrictlyAscending(rows)
        /\ \A n \in 1..Len(rows) : <<rows[n].LEADER_LAT, rows[n].LEADER_LON>> \in FleetPositions}

\* Series.searchsorted(value), side="left": the 0-based index of the first
\* entry >= value, i.e. the number of entries < value (len when there is none)
searchsorted(ld, value) ==
    Cardinality({k \in 1..Len(ld) : ld[k].DATETIME < value})

\* variants of DtlRow that differ from dtl.py in one expression each
DtlRow_LeaderOwnMark(row, leader_row, crs) ==
    LET boat_pos == RowPos(row)
        leader_pos == <<leader_row.LEADER_LAT, leader_row.LEADER_LON>>
        dtl_direct == haversine_distance(boat_pos, leader_pos)
        mark_idx == row.CURRENT_LEG_NUM
        next_mark == crs[mark_idx + 1].marks[1]
        leader_mark == crs[leader_row.LEADER_LEG + 1].marks[1]
        dist_to_next == haversine_distance(boat_pos, <<next_mark.lat, next_mark.lon>>)
        leader_dist_to_next ==
            haversine_distance(leader_pos, <<leader_mark.lat, leader_mark.lon>>)
        same_leg == mark_idx = leader_row.LEADER_LEG
        is_leader == row.DATETIME = leader_row.DATETIME /\ dtl_direct < Cm(1)
    IN  [DATETIME |-> row.DATETIME,
         DTL_DIRECT |-> dtl_direct,
         DTL_INDIRECT |->
             IF is_leader THEN 0
             ELSE IF same_leg THEN dtl_direct
             ELSE dist_to_next + leader_dist_to_next,
         LEG_BEHIND |->
             IF is_leader THEN 0 ELSE leader_row.LEADER_LEG - mark_idx]

DtlRow_ClampedLegs(row, leader_row, crs) ==
    LET boat_pos == RowPos(row)
        leader_pos == <<leader_row.LEADER_LAT, leader_row.LEADER_LON>>
        dtl_direct == haversine_distance(boat_pos, leader_pos)
        mark_idx == row.CURRENT_LEG_NUM
        next_mark == crs[mark_idx + 1].marks[1]
        dist_to_next == haversine_distance(boat_pos, <<next_mark.lat, next_mark.lon>>)
        leader_dist_to_next ==
            haversine_distance(leader_pos, <<next_mark.lat, next_mark.lon>>)
        same_leg == mark_idx = leader_row.LEADER_LEG
        is_leader == row.DATETIME = leader_row.DATETIME /\ dtl_direct < Cm(1)
    IN  [DATETIME |-> row.DATETIME,
         DTL_DIRECT |-> dtl_direct,
         DTL_INDIRECT |->
             IF is_leader THEN 0
             ELSE IF same_leg THEN dtl_direct
             ELSE dist_to_next + leader_dist_to_next,
         LEG_BEHIND |->
             IF is_leader \/ leader_row.LEADER_LEG < mark_idx
             THEN 0 ELSE leader_row.LEADER_LEG - mark_idx]

DtlRow_SelfReferenceByDistance(row, leader_row, crs) ==
    LET boat_pos == RowPos(row)
        leader_pos == <<leader_row.LEADER_LAT, leader_row.LEADER_LON>>
        dtl_direct == haversine_distance(boat_pos, leader_pos)
        mark_idx == row.CURRENT_LEG_NUM
        next_mark == crs[mark_idx + 1].marks[1]
        dist_to_next == haversine_distance(boat_pos, <<next_mark.lat, next_mark.lon>>)
        leader_dist_to_next ==
            haversine_distance(leader_pos, <<next_mark.lat, next_mark.lon>>)
        same_leg == mark_idx = leader_row.LEADER_LEG
        is_leader == dtl_direct < Cm(1)
    IN  [DATETIME |-> row.DATETIME,
         DTL_DIRECT |-> dtl_direct,
         DTL_INDIRECT |->
             IF is_leader THEN 0
             ELSE IF same_leg THEN dtl_direct
             ELSE dist_to_next + leader_dist_to_next,
         LEG_BEHIND |->
             IF is_leader THEN 0 ELSE leader_row.LEADER_LEG - mark_idx]

\* the dict appended to `results` for a row and the leader row chosen for it
DtlRow(row, leader_row, crs) ==
    LET boat_pos == RowPos(row)
        leader_pos == <<leader_row.LEADER_LAT, leader_row.LEADER_LON>>
        dtl_direct == haversine_distance(boat_pos, leader_pos)
        mark_idx == row.CURRENT_LEG_NUM
        next_mark == crs[mark_idx + 1].marks[1]
        dist_to_next == haversine_distance(boat_pos, <<next_mark.lat, next_mark.lon>>)
        leader_dist_to_next ==
            haversine_distance(leader_pos, <<next_mark.lat, next_mark.lon>>)
        same_leg == mark_idx = leader_row.LEADER_LEG
        is_leader == row.DATETIME = leader_row.DATETIME /\ dtl_direct < Cm(1)
    IN  [DATETIME |-> row.DATETIME,
         DTL_DIRECT |-> dtl_direct,
         DTL_INDIRECT |->
             IF is_leader THEN 0
             ELSE IF same_leg THEN dtl_direct
             ELSE dist_to_next + leader_dist_to_next,
         LEG_BEHIND |->
             IF is_leader THEN 0 ELSE leader_row.LEADER_LEG - mark_idx]

\* `row["DATETIME"] == leader_row["DATETIME"] and dtl_direct < 1`: the record
\* gets the int 0 as DTL_INDIRECT, any other record a float
IndirectIsInt(row, leader_row) ==
    /\ row.DATETIME = leader_row.DATETIME
    /\ haversine_distance(RowPos(row), <<leader_row.LEADER_LAT, leader_row.LEADER_LON>>)
          < Cm(1)

\* pd.DataFrame(results) does not satisfy DTLDataSchema: without a record it
\* has no columns, and when every record has the int 0 as DTL_INDIRECT the
\* column is int64, not the float of the schema (one float among the values
\* makes the column float64)
DtlSchemaError(pos_data, ld) ==
    \A n \in 1..Len(pos_data) :
        LET idx == searchsorted(ld, pos_data[n].DATETIME)
        IN  idx < Len(ld) => IndirectIsInt(pos_data[n], ld[idx + 1])

DTLInit ==
    /\ course = FleetCourse
    /\ position_data \in BoatStreams
    /\ leader_data \in LeaderStreams
    /\ row_i = 0
    /\ leader_idx = 0
    /\ dtl_results = <<>>
    /\ pc = "rows"
    /\ TrackIdle /\ LeaderIdle /\ UtilIdle

\* one iteration of `for idx, row in position_data.iterrows()`; course[mark_idx]
\* with mark_idx = len(course) or more raises IndexError, which ends the call
DTLRow ==
    /\ pc = "rows"
    /\ row_i < Len(position_data)
    /\ LET row == position_data[row_i + 1]
           idx == searchsorted(leader_data, row.DATETIME)
       IN  /\ leader_idx' = idx
           /\ IF idx >= Len(leader_data)
              THEN /\ row_i' = row_i + 1                \* continue
                   /\ UNCHANGED <<dtl_results, pc>>
              ELSE IF row.CURRENT_LEG_NUM >= Len(course)
              THEN /\ pc' = "raised"
                   /\ UNCHANGED <<dtl_results, row_i>>
              ELSE /\ dtl_results' =
                         Append(dtl_results, DtlRow(row, leader_data[idx + 1], course))
                   /\ row_i' = row_i + 1
                   /\ UNCHANGED pc
    /\ UNCHANGED <<course, position_data, leader_data, trackVars, leaderVars, utilVars>>

\* return pd.DataFrame(results), validated by @pa.check_types against
\* DTLDataSchema: SchemaError instead of the frame when it does not conform
DTLReturn ==
    /\ pc = "rows"
    /\ row_i = Len(position_data)
    /\ pc' = IF DtlSchemaError(position_data, leader_data) THEN "SchemaError" ELSE "done"
    /\ UNCHANGED <<course, dtlVars, leader_data, trackVars, leaderVars, utilVars>>

(***************************************************************************)
(* DTL properties                                                          *)
(***************************************************************************)
\* the leader records at or before a timestamp
AtOrBefore(t) == {k \in 1..Len(leader_data) : leader_data[k].DATETIME <= t}

\* C10 (as claimed): the row just iterated used the leader record with the
\* greatest timestamp <= the row's timestamp whenever there is one, and never a
\* record with a later timestamp.
C10_LeaderRecordAtOrBefore ==
    (pc = "rows" /\ row_i >= 1) =>
        LET t == position_data[row_i].DATETIME
            used == leader_idx < Len(leader_data)
        IN  /\ used => leader_data[leader_idx + 1].DATETIME <= t
            /\ AtOrBefore(t) # {} =>
                  /\ used
                  /\ \A k \in AtOrBefore(t) :
                        leader_data[k].DATETIME <= leader_data[leader_idx + 1].DATETIME

\* the last iteration appended a record: its row, the leader record chosen for
\* it and the record appended
Emitted == pc = "rows" /\ row_i >= 1 /\ leader_idx < Len(leader_data)
LastRow == position_data[row_i]
LastLeader == leader_data[leader_idx + 1]
LastRecord == dtl_results[Len(dtl_results)]
LastLeaderPos == <<LastLeader.LEADER_LAT, LastLeader.LEADER_LON>>

\* the self-reference case of dtl.py:96: same timestamp and less than 1 m apart
SelfReference ==
    /\ LastRow.DATETIME = LastLeader.DATETIME
    /\ haversine_distance(RowPos(LastRow), LastLeaderPos) < Cm(1)

\* the first mark of course[CURRENT_LEG_NUM] of the subject's row
SubjectNextMark ==
    LET m == course[LastRow.CURRENT_LEG_NUM + 1].marks[1] IN <<m.lat, m.lon>>

\* C11: outside the self-reference case the record just appended has
\* DTL_INDIRECT = DTL_DIRECT when the subject's row and the chosen leader record
\* carry the same mark index, and otherwise DTL_INDIRECT = (subject's distance to
\* the subject's next mark) + (leader position's distance to that same mark).
C11_IndirectViaSubjectMark ==
    (Emitted /\ ~SelfReference) =>
        /\ LastRecord.DTL_DIRECT = haversine_distance(RowPos(LastRow), LastLeaderPos)
        /\ LastRow.CURRENT_LEG_NUM = LastLeader.LEADER_LEG =>
              LastRecord.DTL_INDIRECT = LastRecord.DTL_DIRECT
        /\ LastRow.CURRENT_LEG_NUM # LastLeader.LEADER_LEG =>
              LastRecord.DTL_INDIRECT =
                  haversine_distance(RowPos(LastRow), SubjectNextMark)
                  + haversine_distance(LastLeaderPos, SubjectNextMark)

\* a record for a subject one leg behind a leader that is elsewhere, where the
\* leader is nearer to its own next mark than to the subject's
C11_Witness ==
    /\ Emitted /\ ~SelfReference
    /\ LastRow.CURRENT_LEG_NUM = 0 /\ LastLeader.LEADER_LEG = 1
    /\ RowPos(LastRow) = <<0, 0>> /\ LastLeaderPos = <<2, 1>>
    /\ LastRecord.DTL_INDIRECT > LastRecord.DTL_DIRECT

\* C12: outside the self-reference case LEG_BEHIND of the record just appended
\* is the leader record's leg minus the subject's mark index, not clamped: it is
\* negative when the subject's index is the greater.
C12_LegBehindUnclamped ==
    (Emitted /\ ~SelfReference) =>
        /\ LastRecord.LEG_BEHIND = LastLeader.LEADER_LEG - LastRow.CURRENT_LEG_NUM
        /\ LastRow.CURRENT_LEG_NUM > LastLeader.LEADER_LEG => LastRecord.LEG_BEHIND < 0

\* a record with a negative LEG_BEHIND
C12_Witness ==
    /\ Emitted /\ ~SelfReference
    /\ LastRow.CURRENT_LEG_NUM > LastLeader.LEADER_LEG
    /\ LastRecord.LEG_BEHIND = -1

\* C13: when the timestamps are equal and the direct distance is under 1 m the
\* record has DTL_INDIRECT = 0 and LEG_BEHIND = 0 whatever the two mark indices
\* are; when the timestamps differ or the distance is 1 m or more the two fields
\* are not overridden: a different leg leaves LEG_BEHIND non-zero and
\* DTL_INDIRECT the sum of the two distances to the subject's next mark.
C13_SelfReferenceForcesZero ==
    Emitted =>
        /\ SelfReference => LastRecord.DTL_INDIRECT = 0 /\ LastRecord.LEG_BEHIND = 0
        /\ (~SelfReference /\ LastRow.CURRENT_LEG_NUM # LastLeader.LEADER_LEG) =>
              /\ LastRecord.LEG_BEHIND # 0
              /\ LastRecord.DTL_INDIRECT =
                    haversine_distance(RowPos(LastRow), SubjectNextMark)
                    + haversine_distance(LastLeaderPos, SubjectNextMark)

\* a self-reference record whose two mark indices differ
C13_Witness ==
    /\ Emitted /\ SelfReference
    /\ LastRow.CURRENT_LEG_NUM # LastLeader.LEADER_LEG
    /\ LastRecord.DTL_INDIRECT = 0 /\ LastRecord.LEG_BEHIND = 0

\* C14 (as claimed): calculate_dtl returns one record per subject sample, with
\* that sample's timestamp, in the order of the samples, samples later than the
\* last leader record included.
C14_OneRecordPerSample ==
    pc = "done" =>
        /\ Len(dtl_results) = Len(position_data)
        /\ \A n \in 1..Len(dtl_results) :
              dtl_results[n].DATETIME = position_data[n].DATETIME

NextDTL == DTLRow \/ DTLReturn

SpecDTL == DTLInit /\ [][NextDTL]_vars

(***************************************************************************)
(* utils/gps.py: filter_gps_jumps                                          *)
(***************************************************************************)
MaxPoints == 3

\* grid points given to the filter
FilterPositions == {p \in Positions : p[2] <= 1}

\* the points (0, 0), (0, 0.01) and (50, 50), as <<lat, lon>> in hundredths of a
\* degree
CentiDegPoints == {<<0, 0>>, <<0, 1>>, <<5000, 5000>>}

\* the distances of HaversineCentiDegCm with the radius taken in kilometres
HaversineCentiDegCm_RadiusKm(point1, point2) ==
    LET pair == {point1, point2}
    IN  CASE point1 = point2 -> 0
          [] pair = {<<0, 0>>, <<0, 1>>} -> 111
          [] pair = {<<0, 0>>, <<5000, 5000>>} -> 729388
          [] pair = {<<0, 1>>, <<5000, 5000>>} -> 729328

\* haversine_distance of two of these points in centimetres: the values of
\* R * 2 * arctan2(sqrt(a), sqrt(1 - a)) with R = 6371000, rounded down
\* (1 111.949 m, 7 293 887.107 m, 7 293 285.889 m)
HaversineCentiDegCm(point1, point2) ==
    LET pair == {point1, point2}
    IN  CASE point1 = point2 -> 0
          [] pair = {<<0, 0>>, <<0, 1>>} -> 111194
          [] pair = {<<0, 0>>, <<5000, 5000>>} -> 729388710
          [] pair = {<<0, 1>>, <<5000, 5000>>} -> 729328588

\* haversine_distance of two points of `points`, in centimetres
PointDistance(unit, point1, point2) ==
    IF unit = "step" THEN haversine_distance(point1, point2)
    ELSE HaversineCentiDegCm(point1, point2)

\* the point the i-th point (1-based) is compared with: the previous raw point
\* instead of filtered_points[-1]
ReferencePoint_PreviousRaw(fp, pts, i) == pts[i - 1]

\* the point the i-th point (1-based) is compared with: filtered_points[-1]
ReferencePoint(fp, pts, i) == fp[Len(fp)]

\* filtered_points after the loop body for the i-th point (1-based, i >= 2)
FilteredAfter(fp, pts, i, max_jump, unit) ==
    IF PointDistance(unit, ReferencePoint(fp, pts, i), pts[i]) <= Cm(max_jump)
    THEN Append(fp, pts[i])
    ELSE fp

MaxJumps == {100, 200, 2000}

FilterInit ==
    /\ coord_unit \in {"step", "centideg"}
    /\ points \in UNION {[1..k -> IF coord_unit = "step" THEN FilterPositions
                                  ELSE CentiDegPoints] : k \in 0..MaxPoints}
    /\ max_jump_meters \in MaxJumps
    /\ filtered_points = <<>>
    /\ point_i = 0
    /\ pc = "filter"
    /\ course = <<>> /\ TrackIdle /\ LeaderIdle /\ leader_data = <<>> /\ DtlIdle
    /\ LegIdle /\ VmcIdle /\ OtherIdle

\* if len(points) < 2: return points
FilterShort ==
    /\ pc = "filter"
    /\ Len(points) < 2
    /\ filtered_points' = points
    /\ pc' = "done"
    /\ UNCHANGED <<course, trackVars, leaderVars, leader_data, dtlVars, otherVars, legVars, vmcVars,
                   points, max_jump_meters, coord_unit, point_i>>

\* filtered_points = [points[0]]
FilterFirst ==
    /\ pc = "filter"
    /\ Len(points) >= 2
    /\ point_i = 0
    /\ filtered_points' = <<points[1]>>
    /\ point_i' = 1
    /\ UNCHANGED <<course, pc, trackVars, leaderVars, leader_data, dtlVars, otherVars, legVars,
                   vmcVars, points, max_jump_meters, coord_unit>>

\* one iteration of `for i in range(1, len(points))`
FilterPoint ==
    /\ pc = "filter"
    /\ point_i >= 1
    /\ point_i < Len(points)
    /\ filtered_points' =
          FilteredAfter(filtered_points, points, point_i + 1, max_jump_meters, coord_unit)
    /\ point_i' = point_i + 1
    /\ UNCHANGED <<course, pc, trackVars, leaderVars, leader_data, dtlVars, otherVars, legVars,
                   vmcVars, points, max_jump_meters, coord_unit>>

\* return filtered_points
FilterReturn ==
    /\ pc = "filter"
    /\ point_i >= 1
    /\ point_i = Len(points)
    /\ pc' = "done"
    /\ UNCHANGED <<course, trackVars, leaderVars, leader_data, dtlVars, utilVars>>

(***************************************************************************)
(* gps filter properties                                                   *)
(***************************************************************************)
\* the points kept of the first n points when the first point is kept and each
\* later one is kept iff it is within the threshold of the last point kept
RECURSIVE KeptOfFirst(_)
KeptOfFirst(n) ==
    IF n = 1 THEN <<points[1]>>
    ELSE LET kept == KeptOfFirst(n - 1)
         IN  IF PointDistance(coord_unit, kept[Len(kept)], points[n])
                    <= Cm(max_jump_meters)
             THEN Append(kept, points[n])
             ELSE kept

\* C15: filter_gps_jumps keeps the first point unconditionally and each later
\* point iff its distance to the most recently kept point is <= max_jump_meters
\* (a rejected point never becomes the reference), so consecutive points of the
\* output are within the threshold of each other.
C15_KeptIffWithinLastKept ==
    /\ (pc = "done" /\ point_i = 0) => filtered_points = points
    /\ (point_i >= 1 /\ pc \in {"filter", "done"}) =>
        /\ filtered_points[1] = points[1]
        /\ filtered_points = KeptOfFirst(point_i)
        /\ \A n \in 1..(Len(filtered_points) - 1) :
              PointDistance(coord_unit, filtered_points[n], filtered_points[n + 1])
                  <= Cm(max_jump_meters)

\* a run that rejected a point and then rejected a point that is within the
\* threshold of the rejected one, and one that kept a point after a rejected one
C15_Witness ==
    /\ pc = "done" /\ Len(points) = 3 /\ max_jump_meters = 100
    /\ coord_unit = "step"
    /\ PointDistance(coord_unit, points[1], points[2]) > Cm(100)
    /\ PointDistance(coord_unit, points[2], points[3]) <= Cm(100)
    /\ points[2] # points[3]
    /\ filtered_points = <<points[1]>>

\* the points [(0, 0), (0, 0.01), (50, 50)]
ExampleTrack == <<(<<0, 0>>), (<<0, 1>>), (<<5000, 5000>>)>>

ExampleReturned ==
    pc = "done" /\ coord_unit = "centideg" /\ points = ExampleTrack
    /\ max_jump_meters = 100

\* C16 (as claimed): filter_gps_jumps on [(0,0), (0,0.01), (50,50)] with
\* max_jump_meters = 100 drops only the third point and returns the first two.
C16_ExampleKeepsFirstTwo ==
    ExampleReturned => filtered_points = <<(<<0, 0>>), (<<0, 1>>)>>

\* C16 (amended): filter_gps_jumps on [(0,0), (0,0.01), (50,50)] with
\* max_jump_meters = 100 returns the first point only: the second point is
\* 1 111.9 m from the first, more than 100 m, and is dropped like the third.
C16_ExampleKeepsFirstOnly ==
    ExampleReturned =>
        /\ PointDistance(coord_unit, points[1], points[2]) > Cm(max_jump_meters)
        /\ filtered_points = <<(<<0, 0>>)>>

\* the example has been filtered
C16_Witness == ExampleReturned /\ Len(filtered_points) = 1 /\ point_i = 3

\* filter_gps_jumps as a function of its arguments: the loop from the i-th
\* point (1-based) on, and the whole call
RECURSIVE FilterFrom(_, _, _, _, _)
FilterFrom(fp, pts, i, max_jump, unit) ==
    IF i > Len(pts) THEN fp
    ELSE FilterFrom(FilteredAfter(fp, pts, i, max_jump, unit), pts, i + 1, max_jump, unit)

filter_gps_jumps(pts, max_jump, unit) ==
    IF Len(pts) < 2 THEN pts
    ELSE FilterFrom(<<pts[1]>>, pts, 2, max_jump, unit)

\* sub is seq with some elements left out, the order kept
IsSubsequence(sub, seq) ==
    \E f \in [1..Len(sub) -> 1..Len(seq)] :
        /\ \A n \in 1..Len(sub) : seq[f[n]] = sub[n]
        /\ \A n \in 1..(Len(sub) - 1) : f[n] < f[n + 1]

\* C30: the list returned by filter_gps_jumps is a subsequence of the input that
\* starts with the input's first point, the empty and the one-point list are
\* returned unchanged, and filtering the returned list again with the same
\* threshold returns it unchanged.
C30_IdempotentSubsequence ==
    pc = "done" =>
        /\ filtered_points = filter_gps_jumps(points, max_jump_meters, coord_unit)
        /\ IsSubsequence(filtered_points, points)
        /\ points # <<>> => filtered_points # <<>> /\ filtered_points[1] = points[1]
        /\ Len(points) < 2 => filtered_points = points
        /\ filter_gps_jumps(filtered_points, max_jump_meters, coord_unit) = filtered_points

\* a call that dropped a point between two kept ones
C30_Witness ==
    /\ pc = "done"
    /\ Len(points) = 3 /\ Len(filtered_points) = 2
    /\ filtered_points = <<points[1], points[3]>>
    /\ points[2] # points[3]

NextFilter == FilterShort \/ FilterFirst \/ FilterPoint \/ FilterReturn

SpecFilter == FilterInit /\ [][NextFilter]_vars

(***************************************************************************)
(* navigation/leg_analyzer.py: determine_leg_type                          *)
(***************************************************************************)
\* str.startswith
startswith(str, prefix) ==
    Len(str) >= Len(prefix) /\ SubSeq(str, 1, Len(prefix)) = prefix

\* names of the compound marks given as start_mark and end_mark
MarkNames == {"SL1", "M1", "LG1", "LG", "WG2", "FL1", "L"}

\* wind directions in whole degrees, some below 0 and some at or above 360
WindDirections == (0 - 60)..420

\* forward azimuths returned by calculate_bearing (pyproj), within [-180, 180]
Bearings == {0 - 180, 0 - 45, 0, 135, 180}

\* (wind_direction - leg_bearing) without the reduction modulo 360
relative_wind_Unwrapped(wind, bearing) == wind - bearing

\* relative_wind = (wind_direction - leg_bearing) % 360: Python's % with a
\* positive modulus gives a result in [0, 360), as TLA+'s % does
relative_wind(wind, bearing) == (wind - bearing) % 360

\* the classification by wind angle, leg_analyzer.py:53-64
LegTypeByAngle(r) ==
    IF (0 <= r /\ r <= 90) \/ (270 <= r /\ r <= 360) THEN "upwind"
    ELSE IF 150 <= r /\ r <= 210 THEN "downwind"
    ELSE "reaching"

\* determine_leg_type without the mark-sequence rules
determine_leg_type_AngleOnly(start_name, end_name, wind, bearing) ==
    LegTypeByAngle(relative_wind(wind, bearing))

determine_leg_type(start_name, end_name, wind, bearing) ==
    IF start_name = "SL1" /\ end_name = "M1" THEN "upwind"
    ELSE IF start_name = "M1" /\ startswith(end_name, "LG") THEN "downwind"
    ELSE IF startswith(start_name, "LG") /\ startswith(end_name, "WG") THEN "upwind"
    ELSE IF startswith(start_name, "WG") /\ startswith(end_name, "LG") THEN "downwind"
    ELSE LegTypeByAngle(relative_wind(wind, bearing))

LegInit ==
    /\ start_mark \in MarkNames
    /\ end_mark \in MarkNames
    /\ wind_direction \in WindDirections
    /\ leg_bearing = 0
    /\ leg_type = NoneStr
    /\ pc = "bearing"
    /\ course = <<>> /\ TrackIdle /\ LeaderIdle /\ leader_data = <<>> /\ DtlIdle
    /\ FilterIdle /\ VmcIdle /\ OtherIdle

\* leg_bearing = calculate_bearing(...): the azimuth is the library's answer
LegBearing ==
    /\ pc = "bearing"
    /\ \E b \in Bearings : leg_bearing' = b
    /\ pc' = "classify"
    /\ UNCHANGED <<course, trackVars, leaderVars, leader_data, dtlVars, otherVars, filterVars,
                   vmcVars, start_mark, end_mark, wind_direction, leg_type>>

\* the rest of determine_leg_type up to its return
LegClassify ==
    /\ pc = "classify"
    /\ leg_type' = determine_leg_type(start_mark, end_mark, wind_direction, leg_bearing)
    /\ pc' = "done"
    /\ UNCHANGED <<course, trackVars, leaderVars, leader_data, dtlVars, otherVars, filterVars,
                   vmcVars, start_mark, end_mark, wind_direction, leg_bearing>>

(***************************************************************************)
(* leg type properties                                                     *)
(***************************************************************************)
IsLeeward(name) == startswith(name, "LG")
IsWindward(name) == startswith(name, "WG")

\* the result fixed by the names of the two marks, NoneStr when no rule matches
NameRule(start_name, end_name) ==
    CASE start_name = "SL1" /\ end_name = "M1" -> "upwind"
      [] start_name = "M1" /\ IsLeeward(end_name) -> "downwind"
      [] IsLeeward(start_name) /\ IsWindward(end_name) -> "upwind"
      [] IsWindward(start_name) /\ IsLeeward(end_name) -> "downwind"
      [] OTHER -> NoneStr

\* C17: for SL1 -> M1 the result is upwind, for M1 -> LG* downwind, for
\* LG* -> WG* upwind and for WG* -> LG* downwind, whatever the wind direction
\* and the bearing of the leg are.
C17_NameRulesDecideFirst ==
    (pc = "done" /\ NameRule(start_mark, end_mark) # NoneStr) =>
        leg_type = NameRule(start_mark, end_mark)

\* a leeward-to-windward leg classified upwind with the wind from astern
C17_Witness ==
    /\ pc = "done"
    /\ start_mark = "LG1" /\ end_mark = "WG2"
    /\ (wind_direction - leg_bearing) % 360 = 180
    /\ leg_type = "upwind"

\* C18: for marks that match no name rule the result is exactly one of upwind,
\* downwind, reaching, decided by r = (wind - bearing) mod 360: upwind iff r is
\* in [0, 90] or [270, 360), downwind iff r is in [150, 210], reaching otherwise;
\* this holds for negative bearings and winds outside [0, 360) too.
C18_AngleRulePartition ==
    (pc = "done" /\ NameRule(start_mark, end_mark) = NoneStr) =>
        LET d == wind_direction - leg_bearing
            r == d - 360 * CHOOSE q \in (0 - 2)..2 : 0 <= d - 360 * q /\ d - 360 * q < 360
        IN  /\ leg_type \in {"upwind", "downwind", "reaching"}
            /\ leg_type = "upwind" <=> (r <= 90 \/ r >= 270)
            /\ leg_type = "downwind" <=> (150 <= r /\ r <= 210)
            /\ leg_type = "reaching" <=> ((90 < r /\ r < 150) \/ (210 < r /\ r < 270))

\* a leg without name rule, a negative bearing and a wind above 360 with r = 90
C18_Witness ==
    /\ pc = "done"
    /\ NameRule(start_mark, end_mark) = NoneStr
    /\ leg_bearing < 0 /\ wind_direction > 360
    /\ wind_direction - leg_bearing = 360 + 90
    /\ leg_type = "upwind"

NextLeg == LegBearing \/ LegClassify

SpecLeg == LegInit /\ [][NextLeg]_vars

(***************************************************************************)
(* navigation/bearing.py: calculate_vmc                                    *)
(* navigation/course.py: calculate_track_vmc                               *)
(***************************************************************************)
\* 1000 * cos of an angle of 0, 30, ..., 180 degrees, rounded
CosMilli ==
    [a \in {0, 30, 60, 90, 120, 150, 180} |->
        CASE a = 0 -> 1000 [] a = 30 -> 866 [] a = 60 -> 500 [] a = 90 -> 0
          [] a = 120 -> 0 - 500 [] a = 150 -> 0 - 866 [] a = 180 -> 0 - 1000]

\* np.cos(np.radians(a)) * 1000 for a multiple of 30 degrees of either sign and
\* any size: the cosine is even and has period 360
cos_milli(a) ==
    LET m == Abs(a) % 360
    IN  CosMilli[IF m > 180 THEN 360 - m ELSE m]

\* the angle calculate_vmc gives to the cosine, degrees
angle_diff(boat_heading, course_bearing) ==
    LET d == Abs(boat_heading - course_bearing)
    IN  IF d > 180 THEN 360 - d ELSE d

\* calculate_vmc in thousandths of the unit of boat_speed
calculate_vmc(boat_speed, boat_heading, course_bearing) ==
    boat_speed * cos_milli(angle_diff(boat_heading, course_bearing))

\* the leg number calculate_track_vmc takes for a finished boat
FINISHED_LEG_NUM == 7

\* a course of n single marks along the grid
LineCourse(n) ==
    [k \in 1..n |-> SingleMark(<<"SL1", "M1", "LG1", "WG1", "LG2", "WG2", "FL1", "FL2">>[k],
                               k % 5, k % 3)]

VmcCourses == {FleetCourse, LineCourse(7), LineCourse(8)}

MaxVmcRows == 2

\* rows of boat_data as calculate_track_vmc reads them: SPEED in km/h, HEADING
\* in degrees, CURRENT_LEG_NUM up to len(course)
VmcRows(crs) ==
    [SPEED : {20}, HEADING : {0, 210, 330},
     CURRENT_LEG_NUM : {0, FINISHED_LEG_NUM, Len(crs)} \cap 0..Len(crs)]

\* forward azimuths returned by calculate_bearing for the row's position
VmcBearings == {0 - 180, 0, 60}

VmcInit ==
    /\ course \in VmcCourses
    /\ vmc_data \in UNION {[1..k -> VmcRows(course)] : k \in 1..MaxVmcRows}
    /\ vmc_i = 0
    /\ vmc_bearing = 0
    /\ vmc_results = <<>>
    /\ pc = "vmc"
    /\ TrackIdle /\ LeaderIdle /\ leader_data = <<>> /\ DtlIdle /\ FilterIdle /\ LegIdle
    /\ OtherIdle

\* one iteration of `for idx, row in boat_data.iterrows()`; course[i] with
\* i = len(course) raises IndexError, which ends the call
VmcRow ==
    /\ pc = "vmc"
    /\ vmc_i < Len(vmc_data)
    /\ LET row == vmc_data[vmc_i + 1]
       IN  IF row.CURRENT_LEG_NUM = FINISHED_LEG_NUM
           THEN /\ vmc_results' = Append(vmc_results, [VMC_km_h_1 |-> 0])
                /\ vmc_i' = vmc_i + 1
                /\ UNCHANGED <<pc, vmc_bearing>>
           ELSE IF row.CURRENT_LEG_NUM >= Len(course)
           THEN /\ pc' = "raised"
                /\ UNCHANGED <<vmc_i, vmc_bearing, vmc_results>>
           ELSE \E b \in VmcBearings :
                  /\ vmc_bearing' = b
                  /\ vmc_results' =
                        Append(vmc_results,
                               [VMC_km_h_1 |-> calculate_vmc(row.SPEED, row.HEADING, b)])
                  /\ vmc_i' = vmc_i + 1
                  /\ UNCHANGED pc
    /\ UNCHANGED <<course, vmc_data, trackVars, leaderVars, leader_data, dtlVars, otherVars,
                   filterVars, legVars>>

\* return pd.DataFrame(results, index=boat_data.index)
VmcReturn ==
    /\ pc = "vmc"
    /\ vmc_i = Len(vmc_data)
    /\ pc' = "done"
    /\ UNCHANGED <<course, trackVars, leaderVars, leader_data, dtlVars, utilVars>>

(***************************************************************************)
(* track vmc properties                                                    *)
(***************************************************************************)
\* C19 (as claimed): calculate_track_vmc reports VMC 0 for the samples whose
\* CURRENT_LEG_NUM equals len(course), whatever the length of the course, and
\* speed * cos(angle between heading and bearing to course[CURRENT_LEG_NUM]) for
\* the samples with a smaller index; in particular it returns for such rows.
C19_ZeroExactlyWhenFinished ==
    /\ pc # "raised"
    /\ (pc = "vmc" /\ vmc_i >= 1) =>
          LET row == vmc_data[vmc_i]
              vmc == vmc_results[vmc_i].VMC_km_h_1
          IN  /\ row.CURRENT_LEG_NUM = Len(course) => vmc = 0
              /\ row.CURRENT_LEG_NUM < Len(course) =>
                    vmc = row.SPEED * CosMilli[Abs(angle_diff(row.HEADING, vmc_bearing))]

\* the last iteration computed a bearing and a VMC for its row
VmcComputed ==
    /\ pc = "vmc" /\ vmc_i >= 1
    /\ vmc_data[vmc_i].CURRENT_LEG_NUM # FINISHED_LEG_NUM
    /\ vmc_data[vmc_i].CURRENT_LEG_NUM < Len(course)

\* the angle between two directions given in degrees, within [0, 180]
Separation(a, b) ==
    LET m == (a - b) % 360
    IN  IF m > 180 THEN 360 - m ELSE m

\* C25 (as claimed): for a heading in [0, 360) and a bearing in [-180, 180] the
\* angle that calculate_vmc gives to the cosine lies in [0, 180].
C25_AngleWithinZeroTo180 ==
    VmcComputed =>
        LET a == angle_diff(vmc_data[vmc_i].HEADING, vmc_bearing)
        IN  0 <= a /\ a <= 180

\* what calculate_vmc does with the azimuth of calculate_bearing, which is
\* not normalised to [0, 360): the angle given to the cosine lies in
\* (-180, 180] and is negative when |heading - bearing| exceeds 360; its
\* absolute value is the angle between heading and bearing, so the VMC
\* returned is speed * cos of that angle.
FoldedAngleWithinHalfTurn ==
    VmcComputed =>
        LET row == vmc_data[vmc_i]
            a == angle_diff(row.HEADING, vmc_bearing)
        IN  /\ 0 - 180 < a /\ a <= 180
            /\ a < 0 <=> Abs(row.HEADING - vmc_bearing) > 360
            /\ Abs(a) = Separation(row.HEADING, vmc_bearing)
            /\ vmc_results[vmc_i].VMC_km_h_1 =
                  row.SPEED * CosMilli[Separation(row.HEADING, vmc_bearing)]

NextVmc == VmcRow \/ VmcReturn

SpecVmc == VmcInit /\ [][NextVmc]_vars

(***************************************************************************)
(* identify_leader and calculate_dtl on samples of finished boats          *)
(***************************************************************************)
\* rows of boats on the last leg or finished: CURRENT_LEG_NUM = len(course) is
\* the index of a boat that has rounded every mark
FinishedRows ==
    [DATETIME : Times,
     LATITUDE_GPS : {p[1] : p \in FleetPositions},
     LONGITUDE_GPS : {p[2] : p \in FleetPositions},
     CURRENT_LEG_NUM : {Len(FleetCourse) - 1, Len(FleetCourse)}]

FinishedStreams ==
    {rows \in UNION {[1..k -> FinishedRows] : k \in 0..MaxRows} :
        /\ StrictlyAscending(rows)
        /\ \A n \in 1..Len(rows) : RowPos(rows[n]) \in FleetPositions}

\* identify_leader called on two such streams
LeaderInitFinished ==
    /\ course = FleetCourse
    /\ all_boat_data \in
          {<<[boat_id |-> BoatIds[1], rows |-> a], [boat_id |-> BoatIds[2], rows |-> b]>> :
              a \in FinishedStreams, b \in FinishedStreams}
    /\ timestamps = <<>>
    /\ ts_i = 0
    /\ leader_data = <<>>
    /\ pc = "align"
    /\ TrackIdle /\ DtlIdle /\ UtilIdle

\* calculate_dtl called on such a stream
DTLInitFinished ==
    /\ course = FleetCourse
    /\ position_data \in FinishedStreams
    /\ leader_data \in LeaderStreams
    /\ row_i = 0
    /\ leader_idx = 0
    /\ dtl_results = <<>>
    /\ pc = "rows"
    /\ TrackIdle /\ LeaderIdle /\ UtilIdle

\* C20 (as claimed): a sample whose mark index is len(course) is a valid input
\* to identify_leader and to calculate_dtl: neither call raises on it.
C20_FinishedIndexAccepted == pc # "raised"

InitFinished == LeaderInitFinished \/ DTLInitFinished

NextFinished == NextLeader \/ NextDTL

SpecFinished == InitFinished /\ [][NextFinished]_vars

(***************************************************************************)
(* identify_leader followed by calculate_dtl on one of its boats           *)
(***************************************************************************)
\* calculate_dtl(position_data = the stream of one boat given to
\* identify_leader, leader_data = the DataFrame identify_leader returned)
PipelineDTL ==
    /\ pc = "done"
    /\ all_boat_data # <<>>
    /\ position_data = <<>>
    /\ \E b \in 1..Len(all_boat_data) :
          /\ all_boat_data[b].rows # <<>>
          /\ position_data' = all_boat_data[b].rows
    /\ row_i' = 0
    /\ leader_idx' = 0
    /\ dtl_results' = <<>>
    /\ pc' = "rows"
    /\ UNCHANGED <<course, leaderVars, leader_data, trackVars, utilVars>>

\* calculate_dtl is running or has run on the stream of a boat of the fleet
InPipeline == all_boat_data # <<>> /\ position_data # <<>>

\* the boats (indices into all_boat_data) whose stream is the subject's
Subjects == {b \in 1..Len(all_boat_data) : all_boat_data[b].rows = position_data}

\* C27: when the subject's stream is one of the streams given to
\* identify_leader and the leader stream it returned is given to calculate_dtl,
\* every DTL record of the subject has LEG_BEHIND >= 0.
C27_SubjectNeverAhead ==
    InPipeline => \A n \in 1..Len(dtl_results) : dtl_results[n].LEG_BEHIND >= 0

\* a subject that is a leg behind the leader at a timestamp both have a sample at
C27_Witness ==
    /\ InPipeline /\ pc = "done"
    /\ \E n \in 1..Len(dtl_results) : dtl_results[n].LEG_BEHIND = 1
    /\ \E n \in 1..Len(dtl_results) : dtl_results[n].LEG_BEHIND = 0

\* the DataFrame the call of calculate_dtl gave its caller: none when it raised
DtlReturned == IF pc = "done" THEN dtl_results ELSE <<>>

\* C28: for every leader record (t, L) of identify_leader, calculate_dtl on boat
\* L's own stream and that leader stream returns a record at t with DTL_DIRECT,
\* DTL_INDIRECT and LEG_BEHIND all 0.
C28_LeaderNotBehindItself ==
    (InPipeline /\ pc \in {"done", "SchemaError"}) =>
        \A b \in Subjects : \A r \in 1..Len(leader_data) :
            leader_data[r].LEADER_ID = all_boat_data[b].boat_id =>
                \E n \in 1..Len(DtlReturned) :
                    /\ DtlReturned[n].DATETIME = leader_data[r].DATETIME
                    /\ DtlReturned[n].DTL_DIRECT = 0
                    /\ DtlReturned[n].DTL_INDIRECT = 0
                    /\ DtlReturned[n].LEG_BEHIND = 0

\* the same for the calls that return: a subject that led at some timestamp
\* and has a record that is not a self-reference
LeaderZeroWhenReturned ==
    (InPipeline /\ pc = "done") =>
        \A b \in Subjects : \A r \in 1..Len(leader_data) :
            leader_data[r].LEADER_ID = all_boat_data[b].boat_id =>
                \E n \in 1..Len(dtl_results) :
                    /\ dtl_results[n].DATETIME = leader_data[r].DATETIME
                    /\ dtl_results[n].DTL_DIRECT = 0
                    /\ dtl_results[n].DTL_INDIRECT = 0
                    /\ dtl_results[n].LEG_BEHIND = 0

NextPipeline == NextLeader \/ PipelineDTL \/ NextDTL

SpecPipeline == LeaderInit /\ [][NextPipeline]_vars

(***************************************************************************)
(* add_own_mark_tracking called once per boat, the calls interleaved       *)
(***************************************************************************)
MaxFleetSamples == 2

FleetTrackCourses == {CourseWideGate, CourseCloseMarks}

\* positions given to the trackers of the fleet: on both sides of the gate
\* line, in the zone of M1, and more than 300 m from the first of them
FleetTrackPositions == {<<0, 1>>, <<1, 1>>, <<2, 1>>, <<4, 1>>}

\* the local `prev_pos` as one variable shared by the calls: that of the first
\* boat's call
TrackerPrevPos_Shared(trk, b) == trk[1].prev_pos

\* the local `prev_pos` of the call for boat b
TrackerPrevPos(trk, b) == trk[b].prev_pos

\* results = [], current_mark_idx = 0, prev_pos = None, in every call
FleetTrackInit ==
    /\ course \in FleetTrackCourses
    /\ trackers = [b \in 1..Len(BoatIds) |->
                      [boat_data |-> <<>>, results |-> <<>>, current_mark_idx |-> 0,
                       prev_pos |-> None, pc |-> "loop"]]
    /\ pc = "fleet"
    /\ TrackIdle /\ LeaderIdle /\ leader_data = <<>> /\ DtlIdle
    /\ FilterIdle /\ LegIdle /\ VmcIdle /\ ParseIdle

\* one iteration of `for idx, row in boat_data.iterrows()` in the call for boat b
FleetTrackRow(b, current_pos) ==
    /\ pc = "fleet"
    /\ trackers[b].pc = "loop"
    /\ Len(trackers[b].boat_data) < MaxFleetSamples
    /\ LET t == trackers[b]
           idx == NextMarkIdx(t.current_mark_idx, current_pos,
                              TrackerPrevPos(trackers, b), course)
       IN  trackers' =
              [trackers EXCEPT ![b] =
                  [boat_data |-> Append(t.boat_data, current_pos),
                   results |-> Append(t.results, ResultRow(idx, current_pos, course)),
                   current_mark_idx |-> idx,
                   prev_pos |-> current_pos,
                   pc |-> "loop"]]
    /\ UNCHANGED <<course, pc, trackVars, leaderVars, leader_data, dtlVars,
                   filterVars, legVars, vmcVars, parseVars>>

\* the call for boat b returns
FleetTrackReturn(b) ==
    /\ pc = "fleet"
    /\ trackers[b].pc = "loop"
    /\ trackers' = [trackers EXCEPT ![b].pc = "done"]
    /\ UNCHANGED <<course, pc, trackVars, leaderVars, leader_data, dtlVars,
                   filterVars, legVars, vmcVars, parseVars>>

(***************************************************************************)
(* fleet tracking properties                                               *)
(***************************************************************************)
\* add_own_mark_tracking run alone on the first n rows of a stream: the index
\* and the list `results` after them
RECURSIVE TrackAlone(_, _, _)
TrackAlone(stream, n, crs) ==
    IF n = 0 THEN [idx |-> 0, results |-> <<>>]
    ELSE LET before == TrackAlone(stream, n - 1, crs)
             prev == IF n = 1 THEN None ELSE stream[n - 1]
             idx == NextMarkIdx(before.idx, stream[n], prev, crs)
         IN  [idx |-> idx,
              results |-> Append(before.results, ResultRow(idx, stream[n], crs))]

\* every call has, at every point of every interleaving, the results of the
\* call run alone on the rows it has read
TrackersAsAlone ==
    pc = "fleet" =>
        \A b \in 1..Len(trackers) :
            LET alone == TrackAlone(trackers[b].boat_data,
                                    Len(trackers[b].boat_data), course)
            IN  /\ trackers[b].results = alone.results
                /\ trackers[b].current_mark_idx = alone.idx

\* C26: the output of add_own_mark_tracking for a boat depends only on that
\* boat's stream and the course; the calls for several boats, interleaved in
\* any order, give every boat the output of its call run alone, and no step of
\* tracking changes the course.
C26_TrackingIndependent ==
    /\ []TrackersAsAlone
    /\ [][course' = course]_vars

\* the second boat's call has returned with a rounding while the first boat's
\* call, on another stream, is in its loop without one
C26_Witness ==
    /\ pc = "fleet"
    /\ trackers[2].pc = "done" /\ trackers[1].pc = "loop"
    /\ Len(trackers[1].boat_data) = 2 /\ Len(trackers[2].boat_data) = 2
    /\ trackers[1].boat_data # trackers[2].boat_data
    /\ trackers[2].current_mark_idx = 1 /\ trackers[1].current_mark_idx = 0

NextFleetTrack ==
    \E b \in 1..Len(BoatIds) :
        \/ \E current_pos \in FleetTrackPositions : FleetTrackRow(b, current_pos)
        \/ FleetTrackReturn(b)

SpecFleetTrack == FleetTrackInit /\ [][NextFleetTrack]_vars

(***************************************************************************)
(* importer.parse_race_course: the course of a race XML file               *)
(***************************************************************************)
MaxXmlMarks == 3

\* int() of an attribute of the XML file
int(s) == CASE s = "1" -> 1 [] s = "2" -> 2 [] s = "3" -> 3

\* float() of a TargetLat or TargetLng attribute, in steps of the grid
float(s) ==
    CASE s = "0.0" -> 0
      [] s = "0.000732421875" -> 1
      [] s = "0.00146484375" -> 2
      [] s = "0.002197265625" -> 3
      [] s = "0.0029296875" -> 4

XmlLat == <<"0.000732421875", "0.00146484375", "0.002197265625", "0.0029296875">>

\* the <Mark> children of a <CompoundMark> element with n marks
XmlMarks(n) ==
    [k \in 1..n |-> [Name |-> "Mk", TargetLat |-> XmlLat[k],
                     TargetLng |-> "0.000732421875", SeqID |-> "1"]]

\* a <CompoundMark> element of <Course>
XmlCompoundMark(cm_id, cm_name, n) ==
    [CompoundMarkID |-> cm_id, Name |-> cm_name, marks |-> XmlMarks(n)]

\* the <Course> elements read: compound mark 1 with any number of marks, alone
\* or with the single mark 2 before or after it
XmlCourses ==
    UNION {{<<XmlCompoundMark("1", "LG1", n)>>,
            <<XmlCompoundMark("1", "LG1", n), XmlCompoundMark("2", "M1", 1)>>,
            <<XmlCompoundMark("2", "M1", 1), XmlCompoundMark("1", "LG1", n)>>}
           : n \in 0..MaxXmlMarks}

XmlSeqIDs == {"1", "2", "3"}

\* the <Corner> elements of <CompoundMarkSequence>
XmlCorners ==
    [CompoundMarkID : {"1", "2"}, SeqID : XmlSeqIDs, Rounding : {"Port", "Stbd"}]

\* the sequences read: every corner has a SeqID of its own
XmlSequences ==
    UNION {{sq \in [1..n -> XmlCorners] :
                \A i, j \in 1..n : i # j => sq[i].SeqID # sq[j].SeqID}
           : n \in 1..Cardinality(XmlSeqIDs)}

\* Mark(name=..., lat=float(...), lon=float(...), seq_id=int(...))
ParsedMark(mark) ==
    [name |-> mark.Name, lat |-> float(mark.TargetLat),
     lon |-> float(mark.TargetLng), seq_id |-> int(mark.SeqID)]

\* dict assignment d[key] = value
DictSet(d, key, value) ==
    [k \in (DOMAIN d) \cup {key} |-> IF k = key THEN value ELSE d[k]]

\* the list `ordered_marks` holds references to the objects of
\* `compound_marks`; a reference is the key of the object in the dict.
\* sorted(ordered_marks, key=lambda x: x.seq_id): stable, by the seq_id the
\* referenced object has at the time of the sort
RECURSIVE InsertBySeqId(_, _, _)
InsertBySeqId(sorted_refs, ref, heap) ==
    IF sorted_refs = <<>> THEN <<ref>>
    ELSE LET last == sorted_refs[Len(sorted_refs)]
         IN  IF heap[last].seq_id <= heap[ref].seq_id
             THEN Append(sorted_refs, ref)
             ELSE Append(InsertBySeqId(SubSeq(sorted_refs, 1, Len(sorted_refs) - 1),
                                       ref, heap), last)

RECURSIVE SortedBySeqId(_, _, _)
SortedBySeqId(refs, n, heap) ==
    IF n = 0 THEN <<>>
    ELSE InsertBySeqId(SortedBySeqId(refs, n - 1, heap), refs[n], heap)

\* tree = ET.parse(xml_path); compound_marks = {}
ParseInit ==
    /\ xml_course \in XmlCourses
    /\ xml_sequence \in XmlSequences
    /\ parse_i = 0
    /\ compound_marks = <<>>
    /\ ordered_marks = <<>>
    /\ race_marks = <<>>
    /\ pc = "Course"
    /\ course = <<>>
    /\ TrackIdle /\ LeaderIdle /\ leader_data = <<>> /\ DtlIdle
    /\ FilterIdle /\ LegIdle /\ VmcIdle /\ FleetIdle

\* one iteration of `for cm in root.find("Course")`
ParseCompoundMark ==
    /\ pc = "Course"
    /\ parse_i < Len(xml_course)
    /\ LET cm == xml_course[parse_i + 1]
           cm_id == int(cm.CompoundMarkID)
           marks == [k \in 1..Len(cm.marks) |-> ParsedMark(cm.marks[k])]
       IN  compound_marks' =
              DictSet(compound_marks, cm_id,
                      [id |-> cm_id, name |-> cm.Name, marks |-> marks,
                       rounding |-> "", seq_id |-> 0, zone_size |-> 50])
    /\ IF parse_i + 1 = Len(xml_course)
       THEN parse_i' = 0 /\ pc' = "CompoundMarkSequence"
       ELSE parse_i' = parse_i + 1 /\ pc' = pc
    /\ UNCHANGED <<course, xml_course, xml_sequence, ordered_marks, race_marks,
                   trackVars, leaderVars, leader_data, dtlVars,
                   filterVars, legVars, vmcVars, fleetVars>>

\* one iteration of `for corner in root.find("CompoundMarkSequence")`
ParseCorner ==
    /\ pc = "CompoundMarkSequence"
    /\ parse_i < Len(xml_sequence)
    /\ LET corner == xml_sequence[parse_i + 1]
           cm_id == int(corner.CompoundMarkID)
       IN  IF cm_id \notin DOMAIN compound_marks
           THEN \* compound_marks[cm_id]: KeyError
                /\ pc' = "raised"
                /\ UNCHANGED <<parse_i, compound_marks, ordered_marks>>
           ELSE /\ compound_marks' =
                      [compound_marks EXCEPT
                          ![cm_id].rounding = corner.Rounding,
                          ![cm_id].seq_id = int(corner.SeqID)]
                /\ ordered_marks' = Append(ordered_marks, cm_id)
                /\ parse_i' = parse_i + 1
                /\ pc' = IF parse_i + 1 = Len(xml_sequence) THEN "return" ELSE pc
    /\ UNCHANGED <<course, xml_course, xml_sequence, race_marks,
                   trackVars, leaderVars, leader_data, dtlVars,
                   filterVars, legVars, vmcVars, fleetVars>>

\* return Race(marks=sorted(ordered_marks, key=lambda x: x.seq_id), ...)
ParseReturn ==
    /\ pc = "return"
    /\ LET refs == SortedBySeqId(ordered_marks, Len(ordered_marks), compound_marks)
       IN  race_marks' = [k \in 1..Len(refs) |-> compound_marks[refs[k]]]
    /\ pc' = "done"
    /\ UNCHANGED <<course, xml_course, xml_sequence, parse_i, compound_marks,
                   ordered_marks, trackVars, leaderVars, leader_data, dtlVars,
                   filterVars, legVars, vmcVars, fleetVars>>

(***************************************************************************)
(* parse_race_course properties                                            *)
(***************************************************************************)
\* parse_race_course has returned a Race
ParseReturned == pc = "done" /\ xml_course # <<>>

\* C21: a course with a compound mark of zero marks, or of three or more, is
\* never returned by parse_race_course: every compound mark of a returned
\* course has one mark or two.
C21_MalformedCourseRejected ==
    ParseReturned =>
        \A k \in 1..Len(race_marks) : Len(race_marks[k].marks) \in {1, 2}

\* the corner of the sequence with exactly k - 1 corners of smaller SeqID
CornerOfRank(k) ==
    CHOOSE c \in {xml_sequence[i] : i \in 1..Len(xml_sequence)} :
        Cardinality({i \in 1..Len(xml_sequence) :
                        int(xml_sequence[i].SeqID) < int(c.SeqID)}) = k - 1

\* C23: the returned course has one entry per corner of the sequence, in the
\* order of the corners' SeqID, and the k-th entry is the compound mark of the
\* k-th corner with that corner's SeqID and rounding, also when several
\* corners name the same compound mark.
C23_OneEntryPerCorner ==
    ParseReturned =>
        /\ Len(race_marks) = Len(xml_sequence)
        /\ \A k \in 1..Len(race_marks) :
              /\ race_marks[k].id = int(CornerOfRank(k).CompoundMarkID)
              /\ race_marks[k].seq_id = int(CornerOfRank(k).SeqID)
              /\ race_marks[k].rounding = CornerOfRank(k).Rounding

\* the same property for the sequences in which no compound mark is named by
\* two corners
DistinctCornersInOrder ==
    (\A i, j \in 1..Len(xml_sequence) :
        i # j => xml_sequence[i].CompoundMarkID # xml_sequence[j].CompoundMarkID)
    => C23_OneEntryPerCorner

NextParse == ParseCompoundMark \/ ParseCorner \/ ParseReturn

SpecParse == ParseInit /\ [][NextParse]_vars

====
